---- MODULE Spec2Model ----
(***************************************************************************)
(* MiniAuction: the bidding and auction-lifecycle engine.                   *)
(*                                                                         *)
(* The engine lives in the database: the tables auctions, bids and         *)
(* notifications, the trigger on_bid_created (AFTER INSERT ON bids, FOR    *)
(* EACH ROW) running handle_new_bid, and the function                      *)
(* update_auction_status.  The model is the database under PostgreSQL's    *)
(* default READ COMMITTED isolation:                                       *)
(*   - a bid submission is one transaction: the INSERT of the row, the     *)
(*     trigger's SELECT and checks, the trigger's UPDATE of the auction    *)
(*     row and its INSERTs of notifications, and the commit;               *)
(*   - now() is the start time of the transaction;                         *)
(*   - a SELECT without FOR UPDATE reads the latest committed version of   *)
(*     a row and takes no lock;                                            *)
(*   - an UPDATE takes the row's lock, waits for a concurrent holder to    *)
(*     finish, and then writes over the latest committed version;          *)
(*   - rows written by a transaction are visible to others at its commit   *)
(*     and are removed when an exception aborts it.                        *)
(* Amounts are whole numbers of cents and times are whole ticks.           *)
(***************************************************************************)
EXTENDS Integers, FiniteSets, Sequences, TLC

\* ---- bounds ----
MaxTime   == 2      \* the clock runs over 0..MaxTime
MaxAmount == 2      \* bid amounts are drawn from 0..MaxAmount
MaxPrice  == 2      \* starting_price and bid_increment are drawn from 0..MaxPrice
MaxBids   == 2      \* rows of the bids table (in flight or committed)

Users      == {"s", "a", "b"}     \* profiles
Sellers    == {"s"}               \* the profiles that list auctions
AuctionIds == {"x"}               \* ids an auction can get / a bid can name
Txns       == {"t1", "t2"}        \* concurrent bid submissions (connections)
Callers    == {"c1", "c2"}        \* concurrent callers of update_auction_status
StartTimes == {1}                 \* start_time entered in the form
Durations  == {0, 1}              \* duration_hours entered in the form
Delays     == {0, 1}              \* ticks from a transaction's start to its
                                  \* trigger's SELECT

NULL      == "NULL"
Committed == "committed"

VARIABLES
    clock,          \* wall-clock time
    auctions,       \* table auctions: id -> latest committed row
    bids,           \* table bids: rows, each with xmin = writer or Committed
    notifications,  \* table notifications: committed rows
    pc,             \* per bid transaction: position in INSERT + trigger
    auction_record, \* per bid transaction: the trigger's auction_record
    result,         \* what the last finished submission returned to its caller
    accepted,       \* history: per committed bid, what the trigger saw
    call,           \* per caller of update_auction_status: its transaction
    history,        \* history: the auctions table update_auction_status first
                    \* found, and the latest now() of a finished call
    room            \* an AuctionRoom component: its state, its requests in
                    \* flight and its realtime channels

vars == <<clock, auctions, bids, notifications, pc, auction_record, result,
          accepted, call, history, room>>

\* ---- tables ----

\* The row a SELECT ... INTO finds nothing for: every field is NULL.
NullRecord ==
    [id |-> NULL, seller_id |-> NULL, starting_price |-> NULL,
     bid_increment |-> NULL, start_time |-> NULL, end_time |-> NULL,
     status |-> NULL, highest_bid |-> NULL, highest_bidder_id |-> NULL]

\* AuctionChecks without the constraint on bid_increment.
AuctionChecksNoIncrement(starting_price, bid_increment, start_time, end_time) ==
    /\ starting_price > 0
    /\ end_time > start_time

\* CHECK constraints of table auctions.
AuctionChecks(starting_price, bid_increment, start_time, end_time) ==
    /\ starting_price > 0
    /\ bid_increment > 0
    /\ end_time > start_time

\* CHECK constraint of table bids.
BidChecks(amount) == amount > 0

\* Rows of a table other transactions can read.
Visible(table) == {r \in table : r.xmin = Committed}

\* The row this transaction inserted into bids (the trigger's NEW).  Its
\* created_at is the column default now(), the transaction's start time.
NewRow(t) == CHOOSE r \in bids : r.xmin = t

\* gen_random_uuid(): a value no row of the table has.
FreshBidId == CHOOSE i \in 1..(MaxBids + 1) : \A r \in bids : r.id # i

\* SELECT * INTO auction_record FROM auctions WHERE id = ...
SelectAuction(id) ==
    IF id \in DOMAIN auctions THEN auctions[id] ELSE NullRecord

\* ---- handle_new_bid: the checks ----

\* MinimumBid as it was before the fix "allow starting price as first bid":
\* the increment is demanded of the first bid too.
MinimumBidAlwaysIncrement(rec) ==
    rec.highest_bid + rec.bid_increment

\* minimum_bid of handle_new_bid.
MinimumBid(rec) ==
    IF rec.highest_bid = 0
    THEN rec.starting_price
    ELSE rec.highest_bid + rec.bid_increment

\* RaisedException without the check of the seller.
RaisedExceptionNoSelfBidCheck(rec, new, tnow) ==
    IF rec = NullRecord THEN "Auction not found"
    ELSE IF rec.status # "active" THEN "Auction is not active"
    ELSE IF rec.end_time <= tnow THEN "Auction has ended"
    ELSE IF new.amount < MinimumBid(rec)
         THEN "Bid amount must be at least"
    ELSE "none"

\* RaisedException with the check of the seller moved to the front.
RaisedExceptionSelfBidFirst(rec, new, tnow) ==
    IF rec = NullRecord THEN "Auction not found"
    ELSE IF rec.seller_id = new.bidder_id
         THEN "Sellers cannot bid on their own auctions"
    ELSE IF rec.status # "active" THEN "Auction is not active"
    ELSE IF rec.end_time <= tnow THEN "Auction has ended"
    ELSE IF new.amount < MinimumBid(rec)
         THEN "Bid amount must be at least"
    ELSE "none"

\* The exception handle_new_bid raises for auction_record rec, the new
\* row new and now() = tnow; "none" when it raises none.
RaisedException(rec, new, tnow) ==
    IF rec = NullRecord THEN "Auction not found"
    ELSE IF rec.status # "active" THEN "Auction is not active"
    ELSE IF rec.end_time <= tnow THEN "Auction has ended"
    ELSE IF rec.seller_id = new.bidder_id
         THEN "Sellers cannot bid on their own auctions"
    ELSE IF new.amount < MinimumBid(rec)
         THEN "Bid amount must be at least"
    ELSE "none"

\* Rollback of an exception that is swallowed: the rows stay.
RollbackLeavesRows(table, t) == table

\* An exception aborts the transaction: the rows it wrote are gone.
Rollback(table, t) == {r \in table : r.xmin # t}

\* CommitRows over a table that keeps the current bid only: the committed
\* row takes the place of the rows committed before it.
CommitRowsKeepsLatestOnly(table, t) ==
    {[r EXCEPT !.xmin = Committed] : r \in {q \in table : q.xmin = t}}
    \cup {r \in table : r.xmin \notin {t, Committed}}

\* Commit: the rows the transaction wrote become visible.
CommitRows(table, t) ==
    {IF r.xmin = t THEN [r EXCEPT !.xmin = Committed] ELSE r : r \in table}

\* NewNotifications inserting its rows as already read.
NewNotificationsRead(rec, new) ==
    {[id |-> <<new.id, "new_bid">>, user_id |-> rec.seller_id,
      auction_id |-> new.auction_id, type |-> "new_bid",
      amount |-> new.amount, read |-> TRUE]}
    \cup
    (IF rec.highest_bidder_id # NULL /\ rec.highest_bidder_id # new.bidder_id
     THEN {[id |-> <<new.id, "outbid">>, user_id |-> rec.highest_bidder_id,
            auction_id |-> new.auction_id, type |-> "outbid",
            amount |-> new.amount, read |-> TRUE]}
     ELSE {})

\* The notifications handle_new_bid inserts, from the auction_record it
\* selected: one new_bid for the seller, and one outbid for the previous
\* highest bidder when there is one and it is not the new bidder.
NewNotifications(rec, new) ==
    {[id |-> <<new.id, "new_bid">>, user_id |-> rec.seller_id,
      auction_id |-> new.auction_id, type |-> "new_bid",
      amount |-> new.amount, read |-> FALSE]}
    \cup
    (IF rec.highest_bidder_id # NULL /\ rec.highest_bidder_id # new.bidder_id
     THEN {[id |-> <<new.id, "outbid">>, user_id |-> rec.highest_bidder_id,
            auction_id |-> new.auction_id, type |-> "outbid",
            amount |-> new.amount, read |-> FALSE]}
     ELSE {})

\* The UPDATE with the bidder left out: only highest_bid is set.
UpdateLeaderAmountOnly(row, new) ==
    [row EXCEPT !.highest_bid = new.amount]

\* UPDATE auctions SET highest_bid = NEW.amount, highest_bidder_id =
\* NEW.bidder_id WHERE id = NEW.auction_id, applied to the row's latest
\* committed version: every other column is kept.
UpdateLeader(row, new) ==
    [row EXCEPT !.highest_bid = new.amount,
                !.highest_bidder_id = new.bidder_id]

\* ---- update_auction_status ----

\* ActivateDue without its test of the status: whatever is inside its
\* time window is made active.
ActivateDueAnyStatus(tbl, tnow) ==
    [id \in DOMAIN tbl |->
        IF /\ tbl[id].start_time <= tnow
           /\ tbl[id].end_time > tnow
        THEN [tbl[id] EXCEPT !.status = "active"]
        ELSE tbl[id]]

\* First UPDATE: draft -> active inside the time window.
ActivateDue(tbl, tnow) ==
    [id \in DOMAIN tbl |->
        IF /\ tbl[id].status = "draft"
           /\ tbl[id].start_time <= tnow
           /\ tbl[id].end_time > tnow
        THEN [tbl[id] EXCEPT !.status = "active"]
        ELSE tbl[id]]

\* EndDue of the first migration: only an active auction is ended.
EndDueActiveOnly(tbl, tnow) ==
    [id \in DOMAIN tbl |->
        IF /\ tbl[id].status = "active"
           /\ tbl[id].end_time <= tnow
        THEN [tbl[id] EXCEPT !.status = "ended"]
        ELSE tbl[id]]

\* EndDue taking one stage of the lifecycle per call: a draft auction past
\* its end_time is made active, an active one ended.
EndDueOneStage(tbl, tnow) ==
    [id \in DOMAIN tbl |->
        IF tbl[id].status \in {"draft", "active"} /\ tbl[id].end_time <= tnow
        THEN [tbl[id] EXCEPT
                 !.status = IF @ = "draft" THEN "active" ELSE "ended"]
        ELSE tbl[id]]

\* Second UPDATE: draft or active -> ended once end_time has passed.
EndDue(tbl, tnow) ==
    [id \in DOMAIN tbl |->
        IF /\ tbl[id].status \in {"draft", "active"}
           /\ tbl[id].end_time <= tnow
        THEN [tbl[id] EXCEPT !.status = "ended"]
        ELSE tbl[id]]

\* OldActivateDue with the window test of the revised function.
OldActivateDueInsideWindow(tbl, tnow) ==
    [id \in DOMAIN tbl |->
        IF /\ tbl[id].status = "draft"
           /\ tbl[id].start_time <= tnow
           /\ tbl[id].end_time > tnow
        THEN [tbl[id] EXCEPT !.status = "active"]
        ELSE tbl[id]]

\* update_auction_status of the first migration, first UPDATE: draft ->
\* active once start_time has passed.
OldActivateDue(tbl, tnow) ==
    [id \in DOMAIN tbl |->
        IF /\ tbl[id].status = "draft"
           /\ tbl[id].start_time <= tnow
        THEN [tbl[id] EXCEPT !.status = "active"]
        ELSE tbl[id]]

\* update_auction_status of the first migration, second UPDATE: active ->
\* ended once end_time has passed.
OldEndDue(tbl, tnow) ==
    [id \in DOMAIN tbl |->
        IF /\ tbl[id].status = "active"
           /\ tbl[id].end_time <= tnow
        THEN [tbl[id] EXCEPT !.status = "ended"]
        ELSE tbl[id]]

\* update_auction_status of the first migration: the second UPDATE reads
\* the rows the first has written.
OldUpdateAuctionStatus(tbl, tnow) == OldEndDue(OldActivateDue(tbl, tnow), tnow)

\* The latest now() of the finished calls, kept as a set: empty before
\* any call finished, else its one element.
Later(latest, tnow) ==
    IF \A t \in latest : t < tnow THEN {tnow} ELSE latest

\* A caller of update_auction_status with no call under way.
NoCall == [pc |-> "idle", now |-> NULL, activated |-> {}]

\* The auction rows a status UPDATE of one of the callers cs has written
\* and not committed: the callers hold the locks of these rows.
Locked(cs) == UNION {call[c].activated : c \in cs}

\* The rows an UPDATE turning table tbl into table new writes.
Written(tbl, new) == {id \in DOMAIN tbl : new[id] # tbl[id]}

\* OwnVersion of a call whose first UPDATE is lost: the committed rows.
OwnVersionCommittedOnly(c) == auctions

\* The auctions table as caller c reads it after its first UPDATE: the
\* committed rows, and its own version of the rows it activated (their
\* lock has kept every other writer off them).
OwnVersion(c) ==
    [id \in DOMAIN auctions |->
        IF id \in call[c].activated
        THEN ActivateDue(auctions, call[c].now)[id]
        ELSE auctions[id]]

\* ---- the auction room: its state ----

RoomAuctionId == "x"              \* the auctionId the room is opened with
Channels == {"auction_updates", "bid_updates"}

\* No AuctionRoom is mounted.  auction and bids are the component's state
\* (auction is null as the empty set); loadAuction and loadBids are its
\* requests in flight; subscribed holds the channels that have joined;
\* published is what the realtime server has read of the write-ahead log
\* for the room's filters; auctionEvents and bidEvents are the messages on
\* the way to the room; before is the bid log when the room was opened.
NoRoom ==
    [open |-> FALSE, auction |-> {}, bids |-> {},
     loadAuction |-> [pc |-> "none", data |-> {}],
     loadBids |-> [requests |-> 0, responses |-> {}],
     subscribed |-> {},
     published |-> [auction |-> {}, bids |-> {}],
     auctionEvents |-> <<>>, bidEvents |-> 0,
     before |-> {}]

\* ---- initial state: the schema just migrated, every table empty ----

Init ==
    /\ clock = 0
    /\ auctions = [id \in {} |-> NullRecord]
    /\ bids = {}
    /\ notifications = {}
    /\ pc = [t \in Txns |-> "idle"]
    /\ auction_record = [t \in Txns |-> NullRecord]
    /\ result = [outcome |-> "none", minimum |-> 0]
    /\ accepted = {}
    /\ call = [c \in Callers |-> NoCall]
    /\ history = [initial |-> auctions, latest |-> {}]
    /\ room = NoRoom

\* ---- actions ----

\* Time passes.
Tick ==
    /\ clock < MaxTime
    /\ clock' = clock + 1
    /\ UNCHANGED <<auctions, bids, notifications, pc, auction_record, result,
                   accepted, call, history, room>>

\* CreateAuctionModal.handleSubmit: INSERT INTO auctions with status
\* 'draft'; highest_bid and highest_bidder_id take their defaults.  A row
\* violating a CHECK constraint is not inserted.
CreateAuction(id, seller, starting_price, bid_increment, start_time, duration) ==
    /\ id \notin DOMAIN auctions
    /\ IF AuctionChecks(starting_price, bid_increment, start_time,
                        start_time + duration)
       THEN auctions' =
              [i \in DOMAIN auctions \cup {id} |->
                 IF i = id
                 THEN [id |-> id, seller_id |-> seller,
                       starting_price |-> starting_price,
                       bid_increment |-> bid_increment,
                       start_time |-> start_time,
                       end_time |-> start_time + duration,
                       status |-> "draft", highest_bid |-> 0,
                       highest_bidder_id |-> NULL]
                 ELSE auctions[i]]
       ELSE UNCHANGED auctions
    /\ UNCHANGED <<clock, bids, notifications, pc, auction_record, result,
                   accepted, call, history, room>>

\* supabase.rpc('update_auction_status'): both UPDATEs, with now() = clock,
\* and the commit.  A concurrent bid transaction writes highest_bid and
\* highest_bidder_id only, and an UPDATE that waited for a row lock writes
\* over the row's latest version, so the two never undo each other.
UpdateAuctionStatus ==
    /\ auctions' = EndDue(ActivateDue(auctions, clock), clock)
    /\ UNCHANGED <<clock, bids, notifications, pc, auction_record, result,
                   accepted, call, history, room>>

\* What handle_new_bid, run for a new bid row, returns to the caller when
\* the submission fails: the violated CHECK constraint of bids, or the
\* exception raised with the minimum it reports; outcome "none" when the
\* row passes every check.
Rejection(auction_id, bidder_id, amount, started) ==
    LET rec == SelectAuction(auction_id)
        exc == RaisedException(rec, [bidder_id |-> bidder_id,
                                     amount |-> amount], started)
    IN IF ~BidChecks(amount)
       THEN [outcome |-> "check constraint", minimum |-> 0]
       ELSE [outcome |-> exc,
             minimum |-> IF exc = "Bid amount must be at least"
                         THEN MinimumBid(rec) ELSE 0]

\* AuctionRoom.handlePlaceBid: supabase.from('bids').insert(...), up to
\* the last check of handle_new_bid.  The transaction started at time
\* started (its now()), inserted the row, and the trigger now SELECTs the
\* auction and runs its checks: either a constraint or an exception aborts
\* the transaction, or the trigger goes on to its UPDATE.  Nothing the
\* transaction did before the SELECT is visible to another transaction.
SubmitBid(t, auction_id, bidder_id, amount, started) ==
    /\ pc[t] = "idle"
    /\ clock - started \in Delays
    /\ Cardinality(bids) < MaxBids
    /\ LET new == [id |-> FreshBidId, auction_id |-> auction_id,
                   bidder_id |-> bidder_id, amount |-> amount,
                   created_at |-> started, xmin |-> t]
           rej == Rejection(auction_id, bidder_id, amount, started)
       IN IF rej.outcome # "none"
          THEN /\ result' = rej
               /\ bids' = Rollback(bids \cup {new}, t)
               /\ UNCHANGED <<pc, auction_record>>
          ELSE /\ bids' = bids \cup {new}
               /\ pc' = [pc EXCEPT ![t] = "update"]
               /\ auction_record' =
                     [auction_record EXCEPT ![t] = SelectAuction(auction_id)]
               /\ UNCHANGED result
    /\ UNCHANGED <<clock, auctions, notifications, accepted, call, history, room>>

\* handle_new_bid from its UPDATE auctions to RETURN NEW, and the commit.
\* The UPDATE waits for the row lock, so it runs after every transaction
\* that updated the row before it has committed, and it sets highest_bid =
\* NEW.amount and highest_bidder_id = NEW.bidder_id over the latest
\* committed version of the row, whatever auction_record held.  The
\* notifications are built from auction_record.
CommitBid(t) ==
    /\ pc[t] = "update"
    /\ NewRow(t).auction_id \notin Locked(Callers)
    /\ LET new == NewRow(t)
           a == new.auction_id
       IN /\ auctions' = [auctions EXCEPT ![a] = UpdateLeader(@, new)]
          /\ notifications' = notifications \cup
                                NewNotifications(auction_record[t], new)
          /\ accepted' = accepted \cup
                {[id |-> new.id, seen |-> auction_record[t],
                  before |-> auctions[a]]}
    /\ bids' = CommitRows(bids, t)
    /\ pc' = [pc EXCEPT ![t] = "idle"]
    /\ auction_record' = [auction_record EXCEPT ![t] = NullRecord]
    /\ result' = [outcome |-> "accepted", minimum |-> 0]
    /\ UNCHANGED <<clock, call, history, room>>

Next ==
    \/ \E id \in AuctionIds, seller \in Sellers,
          starting_price \in 0..MaxPrice, bid_increment \in 0..MaxPrice,
          start_time \in StartTimes, duration \in Durations :
          CreateAuction(id, seller, starting_price, bid_increment,
                        start_time, duration)
    \/ Tick
    \/ UpdateAuctionStatus
    \/ \E t \in Txns, auction_id \in AuctionIds, bidder_id \in Users,
          amount \in 0..MaxAmount, started \in 0..MaxTime :
          SubmitBid(t, auction_id, bidder_id, amount, started)
    \/ \E t \in Txns : CommitBid(t)

Spec == Init /\ [][Next]_vars

\* ---- a failing INSERT INTO notifications ----

\* handle_new_bid from its UPDATE auctions on, when one of its INSERTs
\* INTO notifications raises an error (a violated constraint of the
\* table, a failure of the server).  The function has no EXCEPTION block
\* and runs inside the statement that inserted the bid, so the error
\* aborts the transaction: the bid row and the UPDATE are rolled back and
\* the caller gets the error.
NotificationInsertFails(t) ==
    /\ pc[t] = "update"
    /\ NewRow(t).auction_id \notin Locked(Callers)
    /\ bids' = Rollback(bids, t)
    /\ pc' = [pc EXCEPT ![t] = "idle"]
    /\ auction_record' = [auction_record EXCEPT ![t] = NullRecord]
    /\ result' = [outcome |-> "notification insert failed", minimum |-> 0]
    /\ UNCHANGED <<clock, auctions, notifications, accepted, call, history, room>>

NextFailure ==
    \/ Next
    \/ \E t \in Txns : NotificationInsertFails(t)

SpecFailure == Init /\ [][NextFailure]_vars

\* ---- the notifications table through the API ----

\* Policy "System can create notifications": FOR INSERT TO authenticated
\* WITH CHECK (true).  The row-level check of an INSERT INTO notifications
\* by user uid of a row addressed to user_id.
NotificationInsertPolicy(uid, user_id) == TRUE

\* supabase.from('notifications').insert(...) by a signed-in user uid: a
\* row of the user's choosing, addressed to user_id, about an existing
\* auction (the foreign key).  The policy decides whether it is inserted.
InsertNotification(uid, user_id, auction_id, amount) ==
    /\ auction_id \in DOMAIN auctions
    /\ \A n \in notifications : n.id # <<0, "outbid">>
    /\ IF NotificationInsertPolicy(uid, user_id)
       THEN notifications' = notifications \cup
               {[id |-> <<0, "outbid">>, user_id |-> user_id,
                 auction_id |-> auction_id, type |-> "outbid",
                 amount |-> amount, read |-> FALSE]}
       ELSE UNCHANGED notifications
    /\ UNCHANGED <<clock, auctions, bids, pc, auction_record, result,
                   accepted, call, history, room>>

\* Policy "Sellers can update their own auctions": FOR UPDATE USING
\* (auth.uid() = seller_id).  It names no column and has no WITH CHECK, so
\* the USING test is applied to the row before and after the UPDATE.
AuctionUpdatePolicy(uid, row) == uid = row.seller_id

\* supabase.from('auctions').update({...}).eq('id', id) by a signed-in
\* user uid, writing terms of the user's choosing.  The policy and the
\* CHECK constraints of the table decide whether the row is written.
UpdateAuction(uid, id, starting_price, bid_increment, end_time) ==
    /\ id \in DOMAIN auctions
    /\ LET new == [auctions[id] EXCEPT !.starting_price = starting_price,
                                       !.bid_increment = bid_increment,
                                       !.end_time = end_time]
       IN IF /\ AuctionUpdatePolicy(uid, auctions[id])
             /\ AuctionUpdatePolicy(uid, new)
             /\ AuctionChecks(new.starting_price, new.bid_increment,
                              new.start_time, new.end_time)
          THEN auctions' = [auctions EXCEPT ![id] = new]
          ELSE UNCHANGED auctions
    /\ UNCHANGED <<clock, bids, notifications, pc, auction_record, result,
                   accepted, call, history, room>>

NextSellerApi ==
    \/ \E id \in AuctionIds, seller \in Sellers, start_time \in StartTimes,
          duration \in Durations :
          CreateAuction(id, seller, 1, 1, start_time, duration)
    \/ Tick
    \/ UpdateAuctionStatus
    \/ \E auction_id \in AuctionIds, amount \in 1..MaxAmount,
          started \in 0..MaxTime :
          SubmitBid("t1", auction_id, "a", amount, started)
    \/ CommitBid("t1")
    \/ \E uid \in Users, id \in AuctionIds, starting_price \in 0..MaxPrice,
          bid_increment \in 1..MaxPrice, end_time \in 0..MaxTime :
          UpdateAuction(uid, id, starting_price, bid_increment, end_time)

SpecSellerApi == Init /\ [][NextSellerApi]_vars

NextApi ==
    \/ Next
    \/ \E uid \in Users, user_id \in Users, auction_id \in AuctionIds :
          InsertNotification(uid, user_id, auction_id, MaxAmount)

SpecApi == Init /\ [][NextApi]_vars

\* ---- the phase of an auction on the screens ----

Phases == {"Upcoming", "Active", "Ended"}

\* AuctionCard: isUpcoming, isActive, isEnded, with date-fns isBefore and
\* isAfter (strictly before, strictly after); the phases whose flag is set.
AuctionCardPhases(a, tnow) ==
    {p \in Phases :
        \/ p = "Upcoming" /\ tnow < a.start_time
        \/ p = "Active" /\ tnow > a.start_time /\ tnow < a.end_time
        \/ p = "Ended" /\ (tnow > a.end_time \/ a.status = "ended")}

\* AuctionRoom: the same three flags, computed the same way.
AuctionRoomPhases(a, tnow) ==
    {p \in Phases :
        \/ p = "Upcoming" /\ tnow < a.start_time
        \/ p = "Active" /\ tnow > a.start_time /\ tnow < a.end_time
        \/ p = "Ended" /\ (tnow > a.end_time \/ a.status = "ended")}

\* filteredAuctions of the auction list: the three flags its status
\* filter tests.
FilterPhases(a, tnow) ==
    {p \in Phases :
        \/ p = "Upcoming" /\ tnow < a.start_time
        \/ p = "Active" /\ tnow >= a.start_time /\ tnow < a.end_time
                        /\ a.status # "ended"
        \/ p = "Ended" /\ (tnow >= a.end_time \/ a.status = "ended")}

\* AuctionCard: the number in "{n} bids", shown when highest_bid > 0.
\* Math.floor of the quotient; the divisor is positive by the CHECK.
CardBidCount(a) ==
    ((a.highest_bid - a.starting_price) \div a.bid_increment) + 1

\* ---- the notification panel ----

\* Policy "Users can update their own notifications": FOR UPDATE USING
\* (auth.uid() = user_id).
NotificationUpdatePolicy(uid, row) == uid = row.user_id

\* The notifications the panel of user uid lists (policy "Users can read
\* their own notifications").
OwnNotifications(uid) == {n \in notifications : n.user_id = uid}

\* NotificationPanel: a click on an unread notification of the list calls
\* markAsRead(notification.id), which sets the row's read flag.
MarkAsRead(uid, n) ==
    /\ n \in OwnNotifications(uid)
    /\ ~n.read
    /\ NotificationUpdatePolicy(uid, n)
    /\ notifications' = (notifications \ {n}) \cup {[n EXCEPT !.read = TRUE]}
    /\ UNCHANGED <<clock, auctions, bids, pc, auction_record, result,
                   accepted, call, history, room>>

\* NotificationPanel: "Mark all read", shown while some notification of
\* the list is unread, calls markAllAsRead, which sets the read flag of
\* every notification of the user.
MarkAllAsRead(uid) ==
    /\ \E n \in OwnNotifications(uid) : ~n.read
    /\ notifications' =
          {IF NotificationUpdatePolicy(uid, n) THEN [n EXCEPT !.read = TRUE]
           ELSE n : n \in notifications}
    /\ UNCHANGED <<clock, auctions, bids, pc, auction_record, result,
                   accepted, call, history, room>>

NextNotifications ==
    \/ \E id \in AuctionIds, seller \in Sellers, start_time \in StartTimes,
          duration \in Durations :
          CreateAuction(id, seller, 1, 1, start_time, duration)
    \/ Tick
    \/ UpdateAuctionStatus
    \/ \E auction_id \in AuctionIds, bidder_id \in Users \ Sellers,
          amount \in 1..MaxAmount, started \in 0..MaxTime :
          SubmitBid("t1", auction_id, bidder_id, amount, started)
    \/ CommitBid("t1")
    \/ \E uid \in Users : \E n \in notifications : MarkAsRead(uid, n)
    \/ \E uid \in Users : MarkAllAsRead(uid)

SpecNotifications == Init /\ [][NextNotifications]_vars

\* ---- auctions tables to start from ----

StatusIds == {"x", "y"}
Statuses  == {"draft", "active", "ended", "cancelled"}

\* The rows table auctions admits for an id: any status, any window the
\* CHECK constraints allow, with or without a leader.
AuctionRows(id) ==
    {[id |-> id, seller_id |-> seller, starting_price |-> MaxPrice,
      bid_increment |-> MaxPrice, start_time |-> st, end_time |-> et,
      status |-> status, highest_bid |-> lead[1],
      highest_bidder_id |-> lead[2]] :
        seller \in Sellers, st \in 0..MaxTime, et \in 0..MaxTime,
        status \in Statuses,
        lead \in {<<0, NULL>>, <<MaxAmount, "a">>}}

\* ---- update_auction_status as a transaction among others ----

\* supabase.rpc('update_auction_status') reaches the database: the
\* transaction starts, and now() is fixed for both UPDATEs.
BeginCall(c) ==
    /\ call[c].pc = "idle"
    /\ call' = [call EXCEPT ![c] = [pc |-> "activate", now |-> clock,
                                    activated |-> {}]]
    /\ UNCHANGED <<clock, auctions, bids, notifications, pc, auction_record,
                   result, accepted, history, room>>

\* The first UPDATE.  It evaluates its WHERE on the latest committed
\* version of each row, waiting for a row another caller has written; the
\* rows it writes are locked and invisible to others until the commit.
ActivateStatement(c) ==
    /\ call[c].pc = "activate"
    /\ LET rows == Written(auctions, ActivateDue(auctions, call[c].now))
       IN /\ rows \cap Locked(Callers \ {c}) = {}
          /\ call' = [call EXCEPT ![c].pc = "end", ![c].activated = rows]
    /\ UNCHANGED <<clock, auctions, bids, notifications, pc, auction_record,
                   result, accepted, history, room>>

\* The second UPDATE, over the caller's own version of the table, and the
\* commit, which publishes the rows of both UPDATEs.
EndStatement(c) ==
    /\ call[c].pc = "end"
    /\ LET own == OwnVersion(c)
           new == EndDue(own, call[c].now)
       IN /\ Written(own, new) \cap Locked(Callers \ {c}) = {}
          /\ auctions' = new
    /\ call' = [call EXCEPT ![c] = NoCall]
    /\ history' = [history EXCEPT !.latest = Later(@, call[c].now)]
    /\ UNCHANGED <<clock, bids, notifications, pc, auction_record, result,
                   accepted, room>>

\* Two auctions with start_time as the form sets it and no bids yet: x
\* as the form created it, y as any earlier run left it, in any status.
InitConcurrent ==
    /\ clock = 0
    /\ auctions \in {tbl \in [StatusIds -> UNION {AuctionRows(id) : id \in StatusIds}] :
                       \A id \in StatusIds :
                          /\ tbl[id].id = id
                          /\ tbl[id].start_time \in StartTimes
                          /\ tbl[id].end_time > tbl[id].start_time
                          /\ tbl[id].highest_bid = 0
                          /\ id \in AuctionIds => tbl[id].status = "draft"}
    /\ bids = {}
    /\ notifications = {}
    /\ pc = [t \in Txns |-> "idle"]
    /\ auction_record = [t \in Txns |-> NullRecord]
    /\ result = [outcome |-> "none", minimum |-> 0]
    /\ accepted = {}
    /\ call = [c \in Callers |-> NoCall]
    /\ history = [initial |-> auctions, latest |-> {}]
    /\ room = NoRoom

NextConcurrent ==
    \/ Tick
    \/ \E c \in Callers : BeginCall(c)
    \/ \E c \in Callers : ActivateStatement(c)
    \/ \E c \in Callers : EndStatement(c)
    \/ \E auction_id \in AuctionIds, amount \in 1..MaxAmount,
          started \in 0..MaxTime :
          SubmitBid("t1", auction_id, "a", amount, started)
    \/ CommitBid("t1")

SpecConcurrent == InitConcurrent /\ [][NextConcurrent]_vars

\* ---- the auction room ----

\* The rows loadBids selects: the committed bids of the room's auction.
SelectBids == {r \in Visible(bids) : r.auction_id = RoomAuctionId}

\* The committed row of the room's auction, as a set.
SelectRoomAuction ==
    {auctions[id] : id \in DOMAIN auctions \cap {RoomAuctionId}}

\* useEffect on mount: loadAuction() and loadBids() send their requests and
\* the two channels start to join.  The room is opened from the card of an
\* auction, so the auction exists.
OpenRoom ==
    /\ ~room.open
    /\ RoomAuctionId \in DOMAIN auctions
    /\ room' = [NoRoom EXCEPT !.open = TRUE,
                              !.loadAuction.pc = "requested",
                              !.loadBids.requests = 1,
                              !.before = {r.id : r \in SelectBids}]
    /\ UNCHANGED <<clock, auctions, bids, notifications, pc, auction_record,
                   result, accepted, call, history>>

\* The database answers loadAuction's select with the committed row.
ServeLoadAuction ==
    /\ room.loadAuction.pc = "requested"
    /\ room' = [room EXCEPT !.loadAuction =
                                [pc |-> "response", data |-> SelectRoomAuction]]
    /\ UNCHANGED <<clock, auctions, bids, notifications, pc, auction_record,
                   result, accepted, call, history>>

\* loadAuction's await returns: setAuction(data).
DeliverLoadAuction ==
    /\ room.loadAuction.pc = "response"
    /\ room' = [room EXCEPT !.auction = room.loadAuction.data,
                            !.loadAuction = [pc |-> "none", data |-> {}]]
    /\ UNCHANGED <<clock, auctions, bids, notifications, pc, auction_record,
                   result, accepted, call, history>>

\* The database answers one loadBids select with the committed bids.
ServeLoadBids ==
    /\ room.loadBids.requests > 0
    /\ room' = [room EXCEPT !.loadBids =
                   [requests |-> @.requests - 1,
                    responses |-> @.responses \cup {SelectBids}]]
    /\ UNCHANGED <<clock, auctions, bids, notifications, pc, auction_record,
                   result, accepted, call, history>>

\* One loadBids await returns: setBids(data).  The requests are separate
\* HTTP calls, so their answers arrive in any order.
DeliverLoadBids ==
    /\ \E data \in room.loadBids.responses :
          room' = [room EXCEPT !.bids = data,
                               !.loadBids.responses = @ \ {data}]
    /\ UNCHANGED <<clock, auctions, bids, notifications, pc, auction_record,
                   result, accepted, call, history>>

\* .subscribe() of channel ch has joined: changes committed from now on are
\* published to it, earlier ones are not.
Subscribe(ch) ==
    /\ room.open
    /\ ch \notin room.subscribed
    /\ room' = [room EXCEPT
                   !.subscribed = @ \cup {ch},
                   !.published.auction =
                       IF ch = "auction_updates" THEN SelectRoomAuction ELSE @,
                   !.published.bids =
                       IF ch = "bid_updates" THEN SelectBids ELSE @]
    /\ UNCHANGED <<clock, auctions, bids, notifications, pc, auction_record,
                   result, accepted, call, history>>

\* The realtime server reads a committed UPDATE of the room's auction from
\* the write-ahead log and sends postgres_changes with payload.new.
PublishAuction ==
    /\ "auction_updates" \in room.subscribed
    /\ room.published.auction # SelectRoomAuction
    /\ room' = [room EXCEPT
                   !.published.auction = SelectRoomAuction,
                   !.auctionEvents = @ \o [i \in 1..Cardinality(SelectRoomAuction)
                                              |-> auctions[RoomAuctionId]]]
    /\ UNCHANGED <<clock, auctions, bids, notifications, pc, auction_record,
                   result, accepted, call, history>>

\* The realtime server reads a committed INSERT into bids for the room's
\* auction and sends postgres_changes.
PublishBid ==
    /\ "bid_updates" \in room.subscribed
    /\ \E r \in SelectBids \ room.published.bids :
          room' = [room EXCEPT !.published.bids = @ \cup {r},
                               !.bidEvents = @ + 1]
    /\ UNCHANGED <<clock, auctions, bids, notifications, pc, auction_record,
                   result, accepted, call, history>>

\* The handler of auction_updates:
\* setAuction(prev => prev ? { ...prev, ...payload.new } : null).
\* payload.new holds every column, so the merge replaces the row; with
\* auction still null the event is dropped.
DeliverAuctionEvent ==
    /\ room.auctionEvents # <<>>
    /\ room' = [room EXCEPT
                   !.auction = IF @ = {} THEN {} ELSE {Head(room.auctionEvents)},
                   !.auctionEvents = Tail(@)]
    /\ UNCHANGED <<clock, auctions, bids, notifications, pc, auction_record,
                   result, accepted, call, history>>

\* The handler of bid_updates: loadBids().
DeliverBidEvent ==
    /\ room.bidEvents > 0
    /\ room' = [room EXCEPT !.bidEvents = @ - 1,
                            !.loadBids.requests = @ + 1]
    /\ UNCHANGED <<clock, auctions, bids, notifications, pc, auction_record,
                   result, accepted, call, history>>

\* The engine with one bidder and one open room.
NextRoom ==
    \/ \E id \in AuctionIds, seller \in Sellers, start_time \in StartTimes,
          duration \in Durations :
          CreateAuction(id, seller, 1, 1, start_time, duration)
    \/ Tick
    \/ UpdateAuctionStatus
    \/ \E amount \in 1..MaxAmount :
          SubmitBid("t1", RoomAuctionId, "a", amount, clock)
    \/ CommitBid("t1")
    \/ OpenRoom
    \/ ServeLoadAuction
    \/ DeliverLoadAuction
    \/ ServeLoadBids
    \/ DeliverLoadBids
    \/ \E ch \in Channels : Subscribe(ch)
    \/ PublishAuction
    \/ PublishBid
    \/ DeliverAuctionEvent
    \/ DeliverBidEvent

\* Every request is answered, every answer and every realtime message
\* arrives, every channel joins, and the realtime server keeps reading the
\* log.
RoomFairness ==
    /\ WF_vars(ServeLoadAuction)
    /\ WF_vars(DeliverLoadAuction)
    /\ WF_vars(ServeLoadBids)
    /\ WF_vars(DeliverLoadBids)
    /\ \A ch \in Channels : WF_vars(Subscribe(ch))
    /\ WF_vars(PublishAuction)
    /\ WF_vars(PublishBid)
    /\ WF_vars(DeliverAuctionEvent)
    /\ WF_vars(DeliverBidEvent)

SpecRoom == Init /\ [][NextRoom]_vars /\ RoomFairness

\* bids[0] of the list loadBids stores, which is ordered by created_at
\* descending: a row no other row is newer than.  Rows with equal
\* created_at come in either order.
FirstEntries(B) == {b \in B : \A c \in B : c.created_at <= b.created_at}

\* ---- update_auction_status on any auctions table ----

\* Any auctions table over StatusIds, at time 0; nothing else exists.
InitStatus ==
    /\ clock = 0
    /\ auctions \in {tbl \in [StatusIds -> UNION {AuctionRows(id) : id \in StatusIds}] :
                       \A id \in StatusIds :
                          /\ tbl[id].id = id
                          /\ AuctionChecks(tbl[id].starting_price,
                                           tbl[id].bid_increment,
                                           tbl[id].start_time,
                                           tbl[id].end_time)}
    /\ bids = {}
    /\ notifications = {}
    /\ pc = [t \in Txns |-> "idle"]
    /\ auction_record = [t \in Txns |-> NullRecord]
    /\ result = [outcome |-> "none", minimum |-> 0]
    /\ accepted = {}
    /\ call = [c \in Callers |-> NoCall]
    /\ history = [initial |-> auctions, latest |-> {}]
    /\ room = NoRoom

NextStatus ==
    \/ Tick
    \/ UpdateAuctionStatus

SpecStatus == InitStatus /\ [][NextStatus]_vars

\* ======================= properties =======================

\* The transaction start times a submission made now can have.
StartedNow == {st \in 0..clock : clock - st \in Delays}

\* The submissions that can be made now: connection, auction id, bidder,
\* amount and transaction start time.
Submissions ==
    {[t |-> t, auction_id |-> id, bidder_id |-> u, amount |-> amt,
      started |-> st] :
        t \in Txns, id \in AuctionIds, u \in Users, amt \in 0..MaxAmount,
        st \in StartedNow}

\* The step is the submission s.
Submits(s) == SubmitBid(s.t, s.auction_id, s.bidder_id, s.amount, s.started)

\* The step is a rejected submission: no transaction moves, time stands
\* still, and some submission returns a failure.
RejectionStep ==
    /\ pc' = pc
    /\ clock' = clock
    /\ \E s \in Submissions : Submits(s)

\* The rejection reason of the interface for the failure returned.
Reason(outcome) ==
    CASE outcome = "Auction not found" -> "NotFound"
      [] outcome = "Auction is not active" -> "NotActive"
      [] outcome = "Auction has ended" -> "NotActive"
      [] outcome = "Sellers cannot bid on their own auctions" -> "SelfBid"
      [] outcome = "Bid amount must be at least" -> "BelowMinimum"
      [] outcome = "none" -> "Accept"
      [] OTHER -> "other"

\* minimumBid as the specification defines it (section 4.2, step 4).
SpecMinimumBid(a) ==
    IF a.highest_bid = 0 THEN a.starting_price
    ELSE a.highest_bid + a.bid_increment

\* The committed bid rows of an auction, and the bid row with a given id.
AuctionBids(id) == {b \in Visible(bids) : b.auction_id = id}
BidRow(id) == CHOOSE b \in bids : b.id = id

\* The largest amount among bid rows, 0 when there are none.
MaxOfBids(B) ==
    IF B = {} THEN 0
    ELSE CHOOSE m \in {b.amount : b \in B} : \A b \in B : b.amount <= m

\* No bid transaction is in flight.
NoneInFlight == \A t \in Txns : pc[t] = "idle"

\* C1: for every auction the committed highest_bid never decreases, in
\* any interleaving of bid transactions.
C1_HighestBidNeverDecreases ==
    [][\A id \in DOMAIN auctions :
          auctions'[id].highest_bid >= auctions[id].highest_bid]_vars

\* C2: in every state, highest_bid is the maximum amount among the
\* auction's committed bid rows (0 when there are none) and
\* highest_bidder_id is the bidder of a bid of that amount (NULL when
\* there are none).
C2_LeaderIsMaxOfBidLog ==
    \A id \in DOMAIN auctions :
        LET B == AuctionBids(id)
        IN /\ auctions[id].highest_bid = MaxOfBids(B)
           /\ B = {} => auctions[id].highest_bidder_id = NULL
           /\ B # {} => \E b \in B :
                           /\ b.amount = auctions[id].highest_bid
                           /\ b.bidder_id = auctions[id].highest_bidder_id

\* C3: no two accepted bids of one auction were validated against the
\* same highest_bid value.
C3_NoTwoAcceptedAgainstSameHighestBid ==
    \A x, y \in accepted :
        (x.id # y.id /\ x.seen.id = y.seen.id)
            => x.seen.highest_bid # y.seen.highest_bid

\* C4: every accepted bid is at least the minimum bid computed from the
\* auction row as it was immediately before the bid's commit.
C4_AcceptedAtLeastMinimumBeforeCommit ==
    \A x \in accepted : BidRow(x.id).amount >= SpecMinimumBid(x.before)

\* C5: no bid row that passed the checks, in flight or committed, has the
\* auction's seller as bidder, and no auction's highest_bidder_id is its
\* seller_id.
C5_SellerNeverBids ==
    /\ \A b \in bids : b.bidder_id # auctions[b.auction_id].seller_id
    /\ \A id \in DOMAIN auctions :
          auctions[id].highest_bidder_id # auctions[id].seller_id

\* C5 witness: a bid was accepted and the seller's own bid was just refused.
C5_Witness ==
    /\ result.outcome = "Sellers cannot bid on their own auctions"
    /\ Visible(bids) # {}

\* C6: every accepted bid was submitted in the Active phase: at a time
\* now with start_time <= now < end_time, on an auction the trigger did
\* not see as ended or cancelled.
C6_AcceptedOnlyInActivePhase ==
    \A x \in accepted :
        /\ x.seen.start_time <= BidRow(x.id).created_at
        /\ BidRow(x.id).created_at < x.seen.end_time
        /\ x.seen.status \notin {"ended", "cancelled"}

\* C7: a bid by a non-seller of at least the minimum, submitted at a time
\* now with start_time <= now < end_time on an auction that is neither
\* ended nor cancelled, is accepted, whatever the persisted status.
C7_InWindowBidAccepted ==
    [][\A s \in Submissions :
          (/\ s.auction_id \in DOMAIN auctions
           /\ LET a == auctions[s.auction_id]
              IN /\ a.start_time <= s.started
                 /\ s.started < a.end_time
                 /\ a.status \notin {"ended", "cancelled"}
                 /\ s.bidder_id # a.seller_id
                 /\ s.amount >= SpecMinimumBid(a)
           /\ Submits(s))
          => pc'[s.t] = "update"]_vars

\* C8: with no other submission in flight, what a bid (amount > 0) by a
\* non-seller gets on an auction that is active and not past its end_time:
\* it passes iff amount >= minimumBid, and a failure is BelowMinimum
\* reporting exactly minimumBid; and the commit of a bid that passed makes
\* its bidder the leader with highest_bid = amount.
C8_AcceptedIffAtLeastMinimum ==
    /\ [](\A id \in DOMAIN auctions, u \in Users, amt \in 1..MaxAmount,
             st \in StartedNow :
            (/\ NoneInFlight
             /\ auctions[id].status = "active"
             /\ st < auctions[id].end_time
             /\ u # auctions[id].seller_id)
            => LET m == SpecMinimumBid(auctions[id])
                   r == Rejection(id, u, amt, st)
               IN /\ r.outcome = "none" <=> amt >= m
                  /\ r.outcome # "none" =>
                        /\ Reason(r.outcome) = "BelowMinimum"
                        /\ r.minimum = m)
    /\ [][\A t \in Txns :
            (/\ pc[t] = "update"
             /\ pc'[t] = "idle"
             /\ \A u \in Txns \ {t} : pc[u] = "idle")
            => /\ auctions'[NewRow(t).auction_id].highest_bid
                    = NewRow(t).amount
               /\ auctions'[NewRow(t).auction_id].highest_bidder_id
                    = NewRow(t).bidder_id
               /\ result'.outcome = "accepted"]_vars

\* C8 witness: a first bid of exactly starting_price leads, and a later
\* bid above it but short of highest_bid + bid_increment was refused with
\* that minimum.
C8_Witness ==
    \E id \in DOMAIN auctions :
        /\ auctions[id].highest_bid = auctions[id].starting_price
        /\ auctions[id].highest_bidder_id # NULL
        /\ auctions[id].bid_increment > 1
        /\ result.outcome = "Bid amount must be at least"
        /\ result.minimum = auctions[id].highest_bid + auctions[id].bid_increment
        /\ NoneInFlight

\* C9: the checks are applied in the order NotFound, NotActive, SelfBid,
\* BelowMinimum and the first failing one is what a bid (amount > 0)
\* gets: on a missing auction NotFound; on an auction failing the
\* activity check NotActive, also for the seller; for the seller on an
\* auction passing it SelfBid, also below the minimum; BelowMinimum is
\* left for non-sellers on an auction passing it.
C9_FirstFailingCheckWins ==
    \A id \in AuctionIds, u \in Users, amt \in 1..MaxAmount,
       st \in StartedNow :
        LET found == id \in DOMAIN auctions
            a == auctions[id]
            open == a.status = "active" /\ st < a.end_time
            self == u = a.seller_id
            reason == Reason(Rejection(id, u, amt, st).outcome)
        IN /\ ~found => reason = "NotFound"
           /\ (found /\ ~open) => reason = "NotActive"
           /\ (found /\ open /\ self) => reason = "SelfBid"
           /\ (found /\ open /\ ~self /\ amt < SpecMinimumBid(a))
                 => reason = "BelowMinimum"
           /\ (found /\ open /\ ~self /\ amt >= SpecMinimumBid(a))
                 => reason = "Accept"

\* C9 witness: a submission on an ended auction that has bids was refused
\* as not active.
C9_Witness ==
    \E id \in DOMAIN auctions :
        /\ auctions[id].status = "ended"
        /\ AuctionBids(id) # {}
        /\ Reason(result.outcome) = "NotActive"

\* C10: a rejected submission leaves the bids table, the auctions table
\* and the notifications table exactly as they were.
C10_RejectionChangesNothing ==
    [][\/ /\ bids' = bids
          /\ auctions' = auctions
          /\ notifications' = notifications
       \/ ~RejectionStep]_vars

\* C10 witness: a submission was just rejected while the tables hold an
\* accepted bid and its notifications.
C10_Witness ==
    /\ Reason(result.outcome) \in {"NotFound", "NotActive", "SelfBid", "BelowMinimum"}
    /\ Visible(bids) # {}
    /\ notifications # {}

\* C11: an accepted bid's row and its leader update become visible
\* together: in every committed state no bid row of an auction has an
\* amount above the auction's highest_bid, and a highest_bid above 0 is the
\* amount of a committed bid row of the highest bidder.
C11_BidRowAndLeaderVisibleTogether ==
    \A id \in DOMAIN auctions :
        /\ \A b \in AuctionBids(id) : b.amount <= auctions[id].highest_bid
        /\ auctions[id].highest_bid > 0 =>
              \E b \in AuctionBids(id) :
                  /\ b.amount = auctions[id].highest_bid
                  /\ b.bidder_id = auctions[id].highest_bidder_id

\* C12: in every state, for every auction, highest_bid = 0 if and only if
\* highest_bidder_id is NULL.
C12_ZeroBidIffNoLeader ==
    \A id \in DOMAIN auctions :
        auctions[id].highest_bid = 0 <=> auctions[id].highest_bidder_id = NULL

\* C12 witness: an auction with two accepted bids has a positive
\* highest_bid and a leader.
C12_Witness ==
    \E id \in DOMAIN auctions :
        /\ Cardinality(AuctionBids(id)) = 2
        /\ auctions[id].highest_bid > 0
        /\ auctions[id].highest_bidder_id \in Users

\* C13: update_auction_status is idempotent: after a call at time now, a
\* second call with the same now leaves every auction as the first left it.
C13_UpdateAuctionStatusIdempotent ==
    [][UpdateAuctionStatus =>
          EndDue(ActivateDue(auctions', clock'), clock') = auctions']_vars

\* C13 witness: one call activated a draft auction and ended another
\* auction of the table it found.
C13_Witness ==
    /\ auctions = EndDue(ActivateDue(history.initial, clock), clock)
    /\ \E id \in DOMAIN auctions :
          /\ history.initial[id].status = "draft"
          /\ auctions[id].status = "active"
    /\ \E id \in DOMAIN auctions :
          /\ history.initial[id].status = "draft"
          /\ auctions[id].status = "ended"

\* The status the specification (section 4.1) gives an auction after one
\* reconciliation at time tnow.
SpecReconciledStatus(a, tnow) ==
    IF a.status = "draft" /\ a.start_time <= tnow /\ tnow < a.end_time
    THEN "active"
    ELSE IF a.status \in {"draft", "active"} /\ a.end_time <= tnow
         THEN "ended"
         ELSE a.status

\* C15: one call of update_auction_status at time now makes active every
\* draft auction with start_time <= now < end_time, ends every draft or
\* active auction with end_time <= now, and changes nothing else: every
\* other status, and every auction's highest_bid, highest_bidder_id and
\* terms, stay as they were, as do the other tables.
C15_OneCallSetsDueStatusesOnly ==
    /\ [](LET after == EndDue(ActivateDue(auctions, clock), clock)
          IN /\ DOMAIN after = DOMAIN auctions
             /\ \A id \in DOMAIN auctions :
                   after[id] = [auctions[id] EXCEPT
                       !.status = SpecReconciledStatus(auctions[id], clock)])
    /\ [][UpdateAuctionStatus =>
            /\ \A id \in DOMAIN auctions :
                  auctions'[id].status
                       = SpecReconciledStatus(auctions[id], clock)
            /\ bids' = bids
            /\ notifications' = notifications]_vars

\* C15 witness: a call ended an active auction that has a leader, kept
\* its highest_bid and highest_bidder_id, and left a cancelled auction
\* past its end_time cancelled.
C15_Witness ==
    /\ auctions = EndDue(ActivateDue(history.initial, clock), clock)
    /\ \E id \in DOMAIN auctions :
          /\ history.initial[id].status = "active"
          /\ auctions[id].status = "ended"
          /\ auctions[id].highest_bidder_id # NULL
    /\ \E id \in DOMAIN auctions :
          /\ auctions[id].status = "cancelled"
          /\ auctions[id].end_time <= clock

\* C14: in every interleaving of reconciliations and bid submissions, as
\* time goes on, an auction that is ended or cancelled is never draft or
\* active afterwards, and an active auction is never draft afterwards.
C14_StatusNeverGoesBack ==
    [][\A id \in DOMAIN auctions :
          /\ auctions[id].status \in {"ended", "cancelled"}
                => auctions'[id].status \in {"ended", "cancelled"}
          /\ auctions[id].status = "active"
                => auctions'[id].status # "draft"]_vars

\* C14 witness: an auction with an accepted bid has been ended, an
\* auction cancelled before its window has stayed cancelled into it, and a
\* call that started earlier is still under way.
C14_Witness ==
    /\ \E id \in DOMAIN auctions :
          /\ AuctionBids(id) # {}
          /\ auctions[id].status = "ended"
    /\ \E id \in DOMAIN auctions :
          /\ auctions[id].status = "cancelled"
          /\ history.initial[id].status = "cancelled"
          /\ auctions[id].start_time < clock
    /\ \E c \in Callers : call[c].pc = "end" /\ call[c].now < clock

\* No call of update_auction_status is under way.
NoCallUnderWay == \A c \in Callers : call[c].pc = "idle"

\* C16: calls of update_auction_status from several callers, interleaved
\* in any order with each other and with bid submissions, leave, once
\* they have finished, the statuses one reconciliation of the table they
\* started from gives at the latest of their times; no step of a call
\* changes an auction's highest_bid or highest_bidder_id, and a bid that
\* commits while calls are under way is the leader after its commit with
\* the status left as it was.
C16_ConcurrentCallsOrderIndependent ==
    /\ []((NoCallUnderWay /\ history.latest # {}) =>
            \A id \in DOMAIN auctions : \A tnow \in history.latest :
                auctions[id].status
                    = SpecReconciledStatus(history.initial[id], tnow))
    /\ [][/\ call' # call =>
               \A id \in DOMAIN auctions :
                  /\ auctions'[id].highest_bid = auctions[id].highest_bid
                  /\ auctions'[id].highest_bidder_id
                        = auctions[id].highest_bidder_id
          /\ \A t \in Txns :
               (pc[t] = "update" /\ pc'[t] = "idle") =>
                  LET a == NewRow(t).auction_id
                  IN /\ auctions'[a].highest_bid = NewRow(t).amount
                     /\ auctions'[a].highest_bidder_id = NewRow(t).bidder_id
                     /\ auctions'[a].status = auctions[a].status]_vars

\* C16 witness: every call has finished, the latest of them at a time
\* past an end_time; the auction with an accepted bid was ended with its
\* leader kept, and the other auction went from draft to ended.
C16_Witness ==
    /\ NoCallUnderWay
    /\ \E id \in DOMAIN auctions :
          /\ AuctionBids(id) # {}
          /\ auctions[id].status = "ended"
          /\ auctions[id].highest_bidder_id = "a"
          /\ history.latest = {auctions[id].end_time}
    /\ \E id \in DOMAIN auctions :
          /\ AuctionBids(id) = {}
          /\ history.initial[id].status = "draft"
          /\ auctions[id].status = "ended"

\* The notifications a step creates, and their addressees and types.
Created == notifications' \ notifications
CreatedFor == {<<n.user_id, n.type>> : n \in Created}

\* C17: the commit of an accepted bid creates exactly one new_bid
\* notification for the auction's seller, plus one outbid notification for
\* the previous leader if and only if there is one and it is not the new
\* bidder, and no other notification: none for the new bidder, and no
\* outbid when the leader raises their own bid.
C17_NotificationsOfAcceptedBid ==
    [][\A t \in Txns :
          (pc[t] = "update" /\ pc'[t] = "idle" /\ result'.outcome = "accepted")
          => LET new == NewRow(t)
                 a == auctions[new.auction_id]
                 previous == a.highest_bidder_id
             IN /\ CreatedFor =
                      {<<a.seller_id, "new_bid">>} \cup
                      (IF previous # NULL /\ previous # new.bidder_id
                       THEN {<<previous, "outbid">>} ELSE {})
                /\ Cardinality(Created) = Cardinality(CreatedFor)
                /\ \A n \in Created : n.auction_id = new.auction_id]_vars

\* C18: whenever an auction's highest_bidder_id changes from a user A to
\* a different user B, exactly one outbid notification addressed to A is
\* created with that change.
C18_DisplacedLeaderGetsOneOutbid ==
    [][\A id \in DOMAIN auctions :
          LET A == auctions[id].highest_bidder_id
              B == auctions'[id].highest_bidder_id
          IN (A # NULL /\ B # A)
             => Cardinality({n \in Created : /\ n.user_id = A
                                             /\ n.type = "outbid"
                                             /\ n.auction_id = id}) = 1]_vars

\* C19: a failure of an INSERT INTO notifications never rolls back the
\* bid: when it happens to a bid that passed the checks, the bid row is
\* committed and the auction has the bid's amount and bidder as leader.
C19_NotificationFailureKeepsBid ==
    [][\A t \in Txns :
          NotificationInsertFails(t)
          => /\ \E b \in Visible(bids') : b.id = NewRow(t).id
             /\ auctions'[NewRow(t).auction_id].highest_bid = NewRow(t).amount
             /\ auctions'[NewRow(t).auction_id].highest_bidder_id
                   = NewRow(t).bidder_id]_vars

\* C20: every notification row was created by handle_new_bid for an
\* accepted bid on its auction: it is one of the rows the trigger built
\* for a committed bid, so no other action of a user creates a
\* notification, for another user or for themselves.
C20_NotificationsOnlyFromAcceptedBids ==
    \A n \in notifications :
        \E x \in accepted :
            /\ BidRow(x.id).auction_id = n.auction_id
            /\ n \in NewNotifications(x.seen, BidRow(x.id))

\* C21: a notification is created with read = FALSE; under marking as
\* read, marking all as read and bidding, every notification stays in the
\* table, nothing but its read flag changes, and a read flag that is TRUE
\* stays TRUE.
C21_ReadFlagOnlyGoesUp ==
    [][/\ \A m \in notifications' :
             (\A n \in notifications : n.id # m.id) => m.read = FALSE
       /\ \A n \in notifications :
             \E m \in notifications' :
                /\ m = [n EXCEPT !.read = m.read]
                /\ n.read => m.read]_vars

\* C21 witness: the seller has read the notification of one accepted bid
\* and a later accepted bid has added an unread one.
C21_Witness ==
    \E n, m \in notifications :
        /\ n.user_id = m.user_id
        /\ n.type = "new_bid" /\ m.type = "new_bid"
        /\ n.read /\ ~m.read
        /\ BidRow(n.id[1]).amount < BidRow(m.id[1]).amount

\* The terms of an auction row.
Terms(a) ==
    <<a.seller_id, a.starting_price, a.bid_increment, a.start_time,
      a.end_time>>

\* C22: after an auction is created no operation of any user changes its
\* seller_id, starting_price, bid_increment, start_time or end_time.
C22_TermsNeverChange ==
    [][\A id \in DOMAIN auctions :
          /\ id \in DOMAIN auctions'
          /\ Terms(auctions'[id]) = Terms(auctions[id])]_vars

\* C23: the bid log is append-only: a committed bid row stays in the table
\* with its auction, bidder, amount and creation time unchanged, whatever
\* bidding and reconciliation do, so the set of bid rows of an auction
\* only grows.
C23_BidLogAppendOnly ==
    [][/\ Visible(bids) \subseteq Visible(bids')
       /\ \A id \in AuctionIds :
             Cardinality({b \in Visible(bids') : b.auction_id = id})
                >= Cardinality(AuctionBids(id))]_vars

\* C23 witness: an auction took two bids and was then ended by a
\* reconciliation: both rows are in the log.
C23_Witness ==
    \E id \in DOMAIN auctions :
        /\ Cardinality(AuctionBids(id)) = 2
        /\ auctions[id].status = "ended"
        /\ bids = Visible(bids)

\* The creation requests the form can send: id, seller, prices, start
\* time and duration.
CreationRequests ==
    {[id |-> id, seller |-> seller, starting_price |-> sp,
      bid_increment |-> bi, start_time |-> st, duration |-> d] :
        id \in AuctionIds, seller \in Sellers, sp \in 0..MaxPrice,
        bi \in 0..MaxPrice, st \in StartTimes, d \in Durations}

\* The request meets the three constraints of the specification.
SpecValidRequest(q) ==
    /\ q.starting_price > 0
    /\ q.bid_increment > 0
    /\ q.start_time + q.duration > q.start_time

\* The step is the creation request q.
Creates(q) ==
    CreateAuction(q.id, q.seller, q.starting_price, q.bid_increment,
                  q.start_time, q.duration)

\* C24: an auction is created only with starting_price > 0, bid_increment
\* > 0 and end_time > start_time, and starts with status draft, highest_bid
\* 0 and no highest bidder; a creation request violating one of the three
\* constraints creates no auction.
C24_CreateAuctionChecksTerms ==
    [][/\ \A id \in DOMAIN auctions' \ DOMAIN auctions :
             LET a == auctions'[id]
             IN /\ a.starting_price > 0
                /\ a.bid_increment > 0
                /\ a.end_time > a.start_time
                /\ a.status = "draft"
                /\ a.highest_bid = 0
                /\ a.highest_bidder_id = NULL
       /\ \/ auctions' = auctions
          \/ \A q \in CreationRequests :
                ~SpecValidRequest(q) => ~Creates(q)]_vars

\* C24 witness: the auction table holds a newly created auction: draft,
\* no bid, no leader, before its start_time.
C24_Witness ==
    \E id \in DOMAIN auctions :
        /\ auctions[id].status = "draft"
        /\ auctions[id].highest_bid = 0
        /\ auctions[id].highest_bidder_id = NULL
        /\ auctions[id].starting_price < auctions[id].bid_increment
        /\ clock < auctions[id].start_time

\* phaseOf as the specification defines it (section 4.1): the phases
\* that hold of auction a at time tnow.
SpecPhases(a, tnow) ==
    {p \in Phases :
        \/ p = "Upcoming" /\ tnow < a.start_time
        \/ p = "Active" /\ a.start_time <= tnow /\ tnow < a.end_time
                        /\ a.status \notin {"ended", "cancelled"}
        \/ p = "Ended" /\ (tnow >= a.end_time
                           \/ a.status \in {"ended", "cancelled"})}

\* C25: for every auction and every time exactly one of Upcoming, Active
\* and Ended holds, as the specification defines them, and the auction
\* list filter, the auction card and the auction room all compute that
\* phase, also at now = start_time and at now = end_time.
C25_OnePhaseSameOnEveryScreen ==
    \A id \in DOMAIN auctions :
        LET a == auctions[id]
        IN /\ Cardinality(SpecPhases(a, clock)) = 1
           /\ FilterPhases(a, clock) = SpecPhases(a, clock)
           /\ AuctionCardPhases(a, clock) = SpecPhases(a, clock)
           /\ AuctionRoomPhases(a, clock) = SpecPhases(a, clock)

\* A bid on the room's auction has been accepted since the room was opened.
AcceptedWhileOpen ==
    /\ room.open
    /\ \E r \in SelectBids : r.id \notin room.before

\* The room shows the committed leader and every bid accepted since it was
\* opened.
RoomShowsCommitted ==
    /\ room.auction # {}
    /\ \A a \in room.auction :
          /\ a.highest_bid = auctions[RoomAuctionId].highest_bid
          /\ a.highest_bidder_id = auctions[RoomAuctionId].highest_bidder_id
    /\ \A r \in SelectBids : r.id \notin room.before => r \in room.bids

\* C26: when a bid on an auction is accepted while a room of that auction
\* is open (from the moment it starts loading), and requests, answers and
\* realtime messages are all delivered in the end, the room comes to show
\* the committed highest_bid and highest_bidder_id and a bid list with the
\* new bid, with no further action of the user.
C26_RoomConverges == AcceptedWhileOpen ~> RoomShowsCommitted

\* C27: the number of bids an auction card shows, computed from
\* highest_bid, starting_price and bid_increment when highest_bid > 0, is
\* the number of bids accepted on the auction.
C27_CardCountsAcceptedBids ==
    \A id \in DOMAIN auctions :
        auctions[id].highest_bid > 0 =>
            CardBidCount(auctions[id]) = Cardinality(AuctionBids(id))

\* C28: in the bid history of an auction ordered by creation time
\* descending the first entry is the current leading bid: its amount is
\* highest_bid and its bidder is highest_bidder_id, in every interleaving
\* of bid transactions whose created_at is taken at transaction start.
C28_FirstEntryIsLeadingBid ==
    \A id \in DOMAIN auctions :
        \A b \in FirstEntries(AuctionBids(id)) :
            /\ b.amount = auctions[id].highest_bid
            /\ b.bidder_id = auctions[id].highest_bidder_id

\* The status of auction a agrees with time tnow.
ConsistentWithTime(a, tnow) ==
    /\ a.status = "draft" <=> tnow < a.start_time
    /\ a.status = "active" <=> (a.start_time <= tnow /\ tnow < a.end_time)
    /\ a.status = "ended" <=> tnow >= a.end_time

\* C29: right after a call of update_auction_status at time now every
\* auction that is not cancelled has the status its times give it: draft
\* iff now < start_time, active iff start_time <= now < end_time, ended iff
\* now >= end_time, when its status came from its creation and from
\* earlier calls at times <= now only.
C29_StatusConsistentAfterCall ==
    LET after == EndDue(ActivateDue(auctions, clock), clock)
    IN \A id \in DOMAIN auctions :
           after[id].status # "cancelled"
               => ConsistentWithTime(after[id], clock)

\* C29 witness: an auction created as draft was made active by one call,
\* took a bid, and was ended by a later call.
C29_Witness ==
    \E id \in DOMAIN auctions :
        /\ auctions[id].status = "ended"
        /\ auctions[id].highest_bidder_id # NULL
        /\ NoneInFlight
        /\ auctions = EndDue(ActivateDue(auctions, clock), clock)

====
